---- MODULE Spec2Model ----
(***************************************************************************)
(* Model of src/src/shrx.rs: the glob-like pattern compiler (Pattern::new, *)
(* parse_matcher, parse_set_item) and the recursive backtracking matcher   *)
(* (Pattern::check, check_impl, check_one_char_impl, char_in_impl).        *)
(*                                                                         *)
(* Strings are sequences of bytes (0..255).  The source indexes from 0;    *)
(* the model keeps the source's 0-based indices and reads through At and   *)
(* Slice.  A Rust index or slice out of range is a panic: the model makes  *)
(* it the outcome "Panic" of the operation.                                *)
(***************************************************************************)
EXTENDS Integers, Sequences, FiniteSets, TLC

VARIABLES rx, pat, s, result, callers, search

vars == <<rx, pat, s, result, callers, search>>

(***************************************************************************)
(* Bounds of the model.                                                    *)
(***************************************************************************)
\* longest pattern string compiled and then matched (specification Spec)
MaxPatLen == 4
\* longest pattern string compiled (specification SpecCompile)
MaxRxLen == 5
\* longest input, in characters
MaxInputLen == 3
\* longest text after the [ of a bracket expression (specifications
\* SpecBracket and SpecBracketMatch)
MaxBodyLen == 5
\* longest pattern string and longest input (in characters) of the callers
\* that share one Pattern, and their number (specification SpecShared)
MaxSharedPatLen == 3
MaxSharedInputLen == 2
NumCallers == 2
\* bytes after an escape and longest input, in bytes (specification SpecEsc)
MaxEscTailLen == 2
MaxEscInputLen == 2
\* largest byte searched for; the arrays searched hold bytes from 1 up to
\* one below it (specification SpecSearch)
MaxSearchByte == 6

(***************************************************************************)
(* Program constants (shrx.rs:211-217).                                    *)
(***************************************************************************)
STAR == 42
QMARK == 63
BACKSLASH == 92
OPENSQBRACKET == 91
CLOSESQBRACKET == 93
MINUS == 45
INVERT == 94

\* the bytes pattern strings are made of: 'a', 'b' and every byte the
\* compiler treats specially somewhere
PatChars == {97, 98, STAR, QMARK, BACKSLASH, OPENSQBRACKET, CLOSESQBRACKET, MINUS, INVERT}

\* the characters inputs are made of, UTF-8 encoded (check takes a &str, so
\* an input is always a sequence of whole characters): 'a', 'b' and the
\* two-byte character U+00E9
InputChars == {<<97>>, <<98>>, <<195, 169>>}

RxStrings(n) == UNION {[1..k -> PatChars] : k \in 0..n}

RECURSIVE InputsOf(_)
InputsOf(n) ==
    IF n = 0 THEN {<<>>}
    ELSE LET prev == InputsOf(n - 1)
         IN  prev \cup {w \o c : w \in prev, c \in InputChars}

Inputs == InputsOf(MaxInputLen)

\* the bytes the text after a [ is made of: NUL, 'a', 'b' and every byte
\* that is special inside a bracket expression
BracketChars == {0, 97, 98, BACKSLASH, CLOSESQBRACKET, MINUS, INVERT}

\* a [ and up to MaxBodyLen bytes after it
BracketStrings ==
    {<<OPENSQBRACKET>> \o b : b \in UNION {[1..k -> BracketChars] : k \in 0..MaxBodyLen}}

\* the one-byte inputs a set is probed with: the bytes of BracketChars and
\* the neighbours of 'a' and 'b'
Probes == {<<c>> : c \in BracketChars \cup {96, 99}}

(***************************************************************************)
(* 0-based reads of a byte sequence.                                       *)
(***************************************************************************)
At(seq, i) == seq[i + 1]
Slice(seq, a, b) == SubSeq(seq, a + 1, b)
\* Rust's bounds check of seq[a..b]
SliceOk(seq, a, b) == a <= b /\ b <= Len(seq)

(***************************************************************************)
(* Matcher (shrx.rs:10-16).  v is the Literal's bytes or the set's bytes.  *)
(***************************************************************************)
Literal(v) == [tag |-> "Literal", v |-> v]
AnyChar == [tag |-> "AnyChar", v |-> <<>>]
CharIn(v) == [tag |-> "CharIn", v |-> v]
CharNotIn(v) == [tag |-> "CharNotIn", v |-> v]
AnyString == [tag |-> "AnyString", v |-> <<>>]

(***************************************************************************)
(* The compiler.                                                           *)
(***************************************************************************)
\* check_index: Ok (TRUE) or Err("Unexpected end of string") (FALSE)
check_index(re, idx) == ~(idx >= Len(re))

\* faulty variant: the closing bracket ends a literal run too
is_special_AlsoClose(c) == c \in {STAR, QMARK, OPENSQBRACKET, BACKSLASH, CLOSESQBRACKET}

is_special(c) == c = STAR \/ c = QMARK \/ c = OPENSQBRACKET \/ c = BACKSLASH

ItemOk(begin, end, next) == [kind |-> "Ok", begin |-> begin, end |-> end, next |-> next]
ItemFail(kind) == [kind |-> kind, begin |-> 0, end |-> 0, next |-> 0]

\* the range end read after "-\": the source reads rx[i + 1], i the index of
\* the byte after the backslash
EscapedEnd(re, i) ==
    IF i + 1 >= Len(re) THEN ItemFail("Panic")
    ELSE [kind |-> "Ok", begin |-> 0, end |-> At(re, i + 1), next |-> i + 1]

\* faulty variant: a minus before the closing bracket still opens a range
LastMinusIsChar_Never(re, i) == FALSE

\* if rx[i + 1] == CLOSESQBRACKET: the minus at i is the last byte of the set
LastMinusIsChar(re, i) == At(re, i + 1) = CLOSESQBRACKET

parse_set_item(re, idx) ==
    IF idx >= Len(re) THEN ItemFail("Panic")
    ELSE
    LET esc == At(re, idx) = BACKSLASH
        i1 == IF esc THEN idx + 1 ELSE idx
    IN  IF esc /\ ~check_index(re, i1) THEN ItemFail("Err")
        ELSE
        LET begin == At(re, i1)
            i2 == i1 + 1
        IN  IF ~check_index(re, i2) THEN ItemFail("Err")
            ELSE IF At(re, i2) # MINUS THEN ItemOk(begin, begin, i2)
            ELSE IF ~check_index(re, i2 + 1) THEN ItemFail("Err")
            ELSE IF LastMinusIsChar(re, i2) THEN ItemOk(begin, begin, i2)
            ELSE
            LET i3 == i2 + 1
            IN  IF At(re, i3) = BACKSLASH
                THEN LET i4 == i3 + 1
                     IN  IF ~check_index(re, i4) THEN ItemFail("Err")
                         ELSE LET e == EscapedEnd(re, i4)
                              IN  IF e.kind # "Ok" THEN ItemFail(e.kind)
                                  ELSE ItemOk(begin, e.end, e.next)
                ELSE ItemOk(begin, At(re, i3), i3 + 1)

\* for c in begin..end + 1 { set.push(c) }
Expand(begin, end) ==
    IF end < begin THEN <<>> ELSE [k \in 1..(end - begin + 1) |-> begin + k - 1]

\* while i < re.len() && re[i] != CLOSESQBRACKET { ... }
RECURSIVE set_loop(_, _, _)
set_loop(re, i, set) ==
    IF i < Len(re) /\ At(re, i) # CLOSESQBRACKET
    THEN LET it == parse_set_item(re, i)
         IN  IF it.kind # "Ok" THEN [kind |-> it.kind, i |-> i, set |-> set]
             ELSE set_loop(re, it.next, set \o Expand(it.begin, it.end))
    ELSE [kind |-> "Ok", i |-> i, set |-> set]

\* faulty variant: equal neighbours are not collapsed
dedup_KeepAll(set, prev) == set

\* let mut prev: u8 = 0; for c in set { if c != prev { fset.push(c); prev = c } }
\* After every iteration prev equals the element just visited, so element j is
\* pushed exactly when it differs from its predecessor (from prev for j = 1).
dedup(set, prev) ==
    LET kept == {j \in 1..Len(set) : set[j] # (IF j = 1 THEN prev ELSE set[j - 1])}
        nth(i) == CHOOSE j \in kept : Cardinality({m \in kept : m <= j}) = i
    IN  [i \in 1..Cardinality(kept) |-> set[nth(i)]]

MatcherOk(m, next) == [kind |-> "Ok", m |-> m, next |-> next]
MatcherFail(kind) == [kind |-> kind, m |-> AnyChar, next |-> 0]

\* faulty variant: the backslash itself is the literal and the escaped byte
\* is parsed again
parse_escape_NoSkip(re, idx) == MatcherOk(Literal(<<BACKSLASH>>), idx + 1)

\* re[idx + 1..idx + 2].to_vec(), idx + 2
parse_escape(re, idx) ==
    IF ~SliceOk(re, idx + 1, idx + 2) THEN MatcherFail("Panic")
    ELSE MatcherOk(Literal(Slice(re, idx + 1, idx + 2)), idx + 2)

parse_bracket(re, idx) ==
    LET i0 == idx + 1
    IN  IF ~check_index(re, i0) THEN MatcherFail("Err")
        ELSE
        LET invert == At(re, i0) = INVERT
            i1 == IF invert THEN i0 + 1 ELSE i0
            l == set_loop(re, i1, <<>>)
        IN  IF l.kind # "Ok" THEN MatcherFail(l.kind)
            ELSE IF ~check_index(re, l.i) THEN MatcherFail("Err")
            ELSE
            LET fset == dedup(SortSeq(l.set, <), 0)
            IN  IF invert THEN MatcherOk(CharNotIn(fset), l.i + 1)
                ELSE MatcherOk(CharIn(fset), l.i + 1)

\* while end < re.len() && !is_special(re[end]) { end += 1 }
RECURSIVE literal_end(_, _)
literal_end(re, end) ==
    IF end < Len(re) /\ ~is_special(At(re, end)) THEN literal_end(re, end + 1)
    ELSE end

parse_matcher(re, idx) ==
    IF idx >= Len(re) THEN MatcherFail("Panic")
    ELSE IF At(re, idx) = STAR THEN MatcherOk(AnyString, idx + 1)
    ELSE IF At(re, idx) = QMARK THEN MatcherOk(AnyChar, idx + 1)
    ELSE IF At(re, idx) = BACKSLASH THEN parse_escape(re, idx)
    ELSE IF At(re, idx) = OPENSQBRACKET THEN parse_bracket(re, idx)
    ELSE LET end == literal_end(re, idx + 1)
         IN  MatcherOk(Literal(Slice(re, idx, end)), end)

\* the loop of Pattern::new
RECURSIVE new_loop(_, _, _)
new_loop(re, i, matchers) ==
    IF i < Len(re)
    THEN LET r == parse_matcher(re, i)
         IN  IF r.kind # "Ok" THEN [kind |-> r.kind, pattern |-> <<>>]
             ELSE new_loop(re, r.next, Append(matchers, r.m))
    ELSE [kind |-> "Ok", pattern |-> matchers]

\* Pattern::new: Ok(Pattern), Err(ParseError) or a panic
Pattern_new(re) == new_loop(re, 0, <<>>)

(***************************************************************************)
(* The matcher.                                                            *)
(***************************************************************************)
\* U+FFFD, UTF-8 encoded
REPLACEMENT == <<239, 191, 189>>

\* String::from_utf8_lossy(b).to_string(): well-formed characters are kept,
\* every byte that is part of none becomes U+FFFD.  Decodes the one- and
\* two-byte forms, which cover InputChars.
RECURSIVE lossy_from(_, _)
lossy_from(b, i) ==
    IF i >= Len(b) THEN <<>>
    ELSE LET c == At(b, i)
         IN  IF c < 128 THEN <<c>> \o lossy_from(b, i + 1)
             ELSE IF c \in 194..223 /\ i + 1 < Len(b) /\ At(b, i + 1) \in 128..191
                  THEN <<c, At(b, i + 1)>> \o lossy_from(b, i + 2)
             ELSE REPLACEMENT \o lossy_from(b, i + 1)

from_utf8_lossy(b) == lossy_from(b, 0)

\* faulty variant: the search continues in the wrong half
Below_Flipped(x, c) == x > c

\* if set[m] < c
Below(x, c) == x < c

\* let m = l + (r - l) / 2
Mid(l, r) == l + ((r - l) \div 2)

\* while l + 1 < r { ... }
RECURSIVE char_in_loop(_, _, _, _)
char_in_loop(set, c, l, r) ==
    IF l + 1 < r
    THEN LET m == Mid(l, r)
         IN  IF At(set, m) = c THEN TRUE
             ELSE IF Below(At(set, m), c) THEN char_in_loop(set, c, m, r)
             ELSE char_in_loop(set, c, l, m)
    ELSE At(set, l) = c

char_in_impl(set, c) ==
    IF Len(set) = 0 THEN FALSE ELSE char_in_loop(set, c, 0, Len(set))

\* Outcomes of check_impl.  calls is the set of <<pos, rule_idx>> check_impl
\* was called with in the call tree of this outcome.
Matched(groups, calls) == [kind |-> "Some", groups |-> groups, calls |-> calls]
NoMatch(calls) == [kind |-> "None", groups |-> <<>>, calls |-> calls]
Panicked(calls) == [kind |-> "Panic", groups |-> <<>>, calls |-> calls]
WithCalls(r, calls) == [r EXCEPT !.calls = @ \cup calls]

\* faulty variant: the end of the pattern accepts with input left over
AtEnd_Unanchored(str, pos) == pos <= Len(str)

\* if pos == s.len() (end of pattern)
AtEnd(str, pos) == pos = Len(str)

\* faulty variant: the length guard of the Literal arm is missing
LiteralFits_Unguarded(str, pos, v) == TRUE

\* pos + v.len() <= s.len()
LiteralFits(str, pos, v) == pos + Len(v) <= Len(str)

\* faulty variant: only the first byte of the Literal is compared
LiteralEq_FirstByte(str, pos, v) == Len(v) = 0 \/ At(str, pos) = At(v, 0)

\* s[pos..pos + v.len()] == *v
LiteralEq(str, pos, v) == Slice(str, pos, pos + Len(v)) = v

\* pos < s.len()
HasByte(str, pos) == pos < Len(str)

\* faulty variant: the capture is not pushed
PushGroup_Dropped(groups, str, a, b) == groups

\* groups.push(String::from_utf8_lossy(&s[a..b]).to_string())
PushGroup(groups, str, a, b) == Append(groups, from_utf8_lossy(Slice(str, a, b)))

\* faulty variant: the wildcard loop starts one byte late and never tries the empty span
AnyStringStart_SkipEmpty(pos) == pos + 1

\* let mut p = pos
AnyStringStart(pos) == pos

RECURSIVE check_impl(_, _, _, _)
RECURSIVE any_string_loop(_, _, _, _, _)

check_one_char_impl(p, str, pos, rule_idx) ==
    LET tail == check_impl(p, str, pos + 1, rule_idx + 1)
    IN  IF tail.kind = "Some"
        THEN IF ~SliceOk(str, pos, pos + 1) THEN Panicked(tail.calls)
             ELSE Matched(PushGroup(tail.groups, str, pos, pos + 1), tail.calls)
        ELSE tail

check_impl(p, str, pos, rule_idx) ==
    LET me == {<<pos, rule_idx>>}
    IN  IF rule_idx >= Len(p)
        THEN IF AtEnd(str, pos) THEN Matched(<<>>, me) ELSE NoMatch(me)
        ELSE
        LET m == At(p, rule_idx)
        IN  CASE m.tag = "Literal" ->
                   IF LiteralFits(str, pos, m.v)
                   THEN IF ~SliceOk(str, pos, pos + Len(m.v)) THEN Panicked(me)
                        ELSE IF LiteralEq(str, pos, m.v)
                             THEN WithCalls(check_impl(p, str, pos + Len(m.v), rule_idx + 1), me)
                        ELSE NoMatch(me)
                   ELSE NoMatch(me)
              [] m.tag = "AnyChar" ->
                   IF HasByte(str, pos)
                   THEN WithCalls(check_one_char_impl(p, str, pos, rule_idx), me)
                   ELSE NoMatch(me)
              [] m.tag = "CharIn" ->
                   IF HasByte(str, pos)
                   THEN IF pos >= Len(str) THEN Panicked(me)
                        ELSE IF char_in_impl(m.v, At(str, pos))
                             THEN WithCalls(check_one_char_impl(p, str, pos, rule_idx), me)
                        ELSE NoMatch(me)
                   ELSE NoMatch(me)
              [] m.tag = "CharNotIn" ->
                   IF HasByte(str, pos)
                   THEN IF pos >= Len(str) THEN Panicked(me)
                        ELSE IF ~char_in_impl(m.v, At(str, pos))
                             THEN WithCalls(check_one_char_impl(p, str, pos, rule_idx), me)
                        ELSE NoMatch(me)
                   ELSE NoMatch(me)
              [] m.tag = "AnyString" ->
                   WithCalls(any_string_loop(p, str, pos, rule_idx, AnyStringStart(pos)), me)

\* while p < s.len() { ...; p = p + 1 }, then the None of line 172
any_string_loop(p, str, pos, rule_idx, q) ==
    IF q < Len(str)
    THEN LET m == check_impl(p, str, q, rule_idx + 1)
         IN  IF m.kind = "Some"
             THEN IF ~SliceOk(str, pos, q) THEN Panicked(m.calls)
                  ELSE Matched(PushGroup(m.groups, str, pos, q), m.calls)
             ELSE IF m.kind = "Panic" THEN m
             ELSE WithCalls(any_string_loop(p, str, pos, rule_idx, q + 1), m.calls)
    ELSE NoMatch({})

\* Pattern::check
check(p, str) == check_impl(p, str, 0, 0)

\* CheckResult::group_count, CheckResult::group
group_count(r) == Len(r.groups)
\* faulty variant: every index reads the capture of the first element
group_First(r, idx) == At(r.groups, Len(r.groups) - 1)

\* faulty variant: the groups are read in the order they were pushed
group_Unreversed(r, idx) == At(r.groups, idx)

group(r, idx) == At(r.groups, Len(r.groups) - 1 - idx)

(***************************************************************************)
(* The state machine: a pattern string is compiled once (New); the Pattern *)
(* it yields is then checked against any number of inputs (Check).         *)
(***************************************************************************)
NoPattern == [kind |-> "none", pattern |-> <<>>]
NoResult == [kind |-> "none", groups |-> <<>>, calls |-> {}]


\* A run of char_in_impl: the array and the byte it was called with, l and r,
\* where it stands (pc), its return value and the indices of the array it
\* has read.
NoSearch == [set |-> <<>>, c |-> 0, l |-> 0, r |-> 0, pc |-> "none",
             ret |-> FALSE, reads |-> {}]

\* A caller of check on the shared Pattern: its input, the stack of its
\* check_impl activations (the innermost last) and the value the activation
\* that returned last handed to its caller.
NoReturn == [kind |-> "none", groups |-> <<>>]
Idle == [input |-> <<>>, stack |-> <<>>, ret |-> NoReturn]
Callers == 1..NumCallers

Init ==
    /\ rx = <<>>
    /\ pat = NoPattern
    /\ s = <<>>
    /\ result = NoResult
    /\ callers = [t \in Callers |-> Idle]
    /\ search = NoSearch

Compile(strings) ==
    /\ pat = NoPattern
    /\ \E r \in strings :
          /\ rx' = r
          /\ pat' = Pattern_new(r)
    /\ UNCHANGED <<s, result, callers, search>>

New == Compile(RxStrings(MaxPatLen))

NewRx == Compile(RxStrings(MaxRxLen))

\* compilation of a bracket expression
NewBracket == Compile(BracketStrings)

CheckOn(inputs) ==
    /\ pat.kind = "Ok"
    /\ \E str \in inputs :
          /\ s' = str
          /\ result' = check(pat.pattern, str)
    /\ UNCHANGED <<rx, pat, callers, search>>

Check == CheckOn(Inputs)

\* a check of a one-byte input
CheckProbe == CheckOn(Probes)

Next == New \/ Check

Spec == Init /\ [][Next]_vars

\* compilation alone, of longer pattern strings
SpecCompile == Init /\ [][NewRx]_vars

\* compilation alone, of bracket expressions
SpecBracket == Init /\ [][NewBracket]_vars

\* bracket expressions compiled and probed with one-byte inputs
NextBracketMatch == NewBracket \/ CheckProbe

SpecBracketMatch == Init /\ [][NextBracketMatch]_vars

(***************************************************************************)
(* Several callers check inputs against one shared Pattern.  Every caller  *)
(* runs check_impl one activation step at a time: entering an activation   *)
(* and resuming it after the activation it called has returned are         *)
(* separate steps, and the steps of the callers interleave freely.         *)
(***************************************************************************)
SharedPatChars == {97, STAR, QMARK, OPENSQBRACKET, CLOSESQBRACKET}
SharedStrings == UNION {[1..k -> SharedPatChars] : k \in 0..MaxSharedPatLen}
SharedInputs == InputsOf(MaxSharedInputLen)

\* compilation of the Pattern the callers share
NewShared == Compile(SharedStrings)

\* an activation check_impl(s, pos, rule_idx) that has not run yet; at names
\* the call it waits in once it has run, q is the p of the AnyString loop
Activation(pos, rule_idx) ==
    [pos |-> pos, rule_idx |-> rule_idx, at |-> "enter", q |-> 0]

\* faulty variant: the called activation works on the same element
NextRule_Same(rule_idx) == rule_idx

\* rule_idx + 1
NextRule(rule_idx) == rule_idx + 1

\* faulty variant: the capture list is one static vector the calls share
FreshGroups_Static(t) == callers[1].ret.groups

\* CheckResult { groups: vec![] }
FreshGroups(t) == <<>>

\* faulty variant: the returned value is kept in one slot the calls share
Returned_Shared(t) == callers[1].ret

\* the value of self.check_impl(...) in the activation that called it
Returned(t) == callers[t].ret

Top(c) == c.stack[Len(c.stack)]

\* return r from the innermost activation
Return(c, r) ==
    [c EXCEPT !.stack = SubSeq(c.stack, 1, Len(c.stack) - 1), !.ret = r]

\* the innermost activation calls check_impl(s, pos, rule_idx) and waits
CallImpl(c, at, q, pos, rule_idx) ==
    [c EXCEPT !.stack = Append([c.stack EXCEPT ![Len(c.stack)].at = at,
                                               ![Len(c.stack)].q = q],
                               Activation(pos, rule_idx))]

\* a slice out of range: the thread of the caller panics
Abort(c) == [c EXCEPT !.stack = <<>>, !.ret = [kind |-> "Panic", groups |-> <<>>]]

SomeOf(groups) == [kind |-> "Some", groups |-> groups]
NoneOf == [kind |-> "None", groups |-> <<>>]

\* the head of while p < s.len(): the next call of the loop, or the final None
loop_head(c, q) ==
    IF q < Len(c.input)
    THEN CallImpl(c, "loop", q, q, NextRule(Top(c).rule_idx))
    ELSE Return(c, NoneOf)

\* one step of the innermost activation of caller t on the pattern p
step_impl(p, t) ==
    LET c == callers[t]
        f == Top(c)
        str == c.input
    IN  IF f.rule_idx >= Len(p)
        THEN Return(c, IF AtEnd(str, f.pos) THEN SomeOf(FreshGroups(t)) ELSE NoneOf)
        ELSE
        LET m == At(p, f.rule_idx)
        IN  CASE m.tag = "Literal" ->
                   IF f.at = "enter"
                   THEN IF LiteralFits(str, f.pos, m.v)
                        THEN IF ~SliceOk(str, f.pos, f.pos + Len(m.v)) THEN Abort(c)
                             ELSE IF LiteralEq(str, f.pos, m.v)
                                  THEN CallImpl(c, "tail", 0, f.pos + Len(m.v), NextRule(f.rule_idx))
                             ELSE Return(c, NoneOf)
                        ELSE Return(c, NoneOf)
                   ELSE Return(c, Returned(t))
              [] m.tag \in {"AnyChar", "CharIn", "CharNotIn"} ->
                   IF f.at = "enter"
                   THEN IF /\ HasByte(str, f.pos)
                           /\ \/ m.tag = "AnyChar"
                              \/ m.tag = "CharIn" /\ char_in_impl(m.v, At(str, f.pos))
                              \/ m.tag = "CharNotIn" /\ ~char_in_impl(m.v, At(str, f.pos))
                        THEN CallImpl(c, "one_char", 0, f.pos + 1, NextRule(f.rule_idx))
                        ELSE Return(c, NoneOf)
                   ELSE IF Returned(t).kind = "Some"
                        THEN IF ~SliceOk(str, f.pos, f.pos + 1) THEN Abort(c)
                             ELSE Return(c, SomeOf(PushGroup(Returned(t).groups, str, f.pos, f.pos + 1)))
                        ELSE Return(c, NoneOf)
              [] m.tag = "AnyString" ->
                   IF f.at = "enter" THEN loop_head(c, AnyStringStart(f.pos))
                   ELSE IF Returned(t).kind = "Some"
                        THEN IF ~SliceOk(str, f.pos, f.q) THEN Abort(c)
                             ELSE Return(c, SomeOf(PushGroup(Returned(t).groups, str, f.pos, f.q)))
                        ELSE loop_head(c, f.q + 1)

Running(t) == callers[t].stack # <<>>
Done(t) == callers[t].stack = <<>> /\ callers[t].ret.kind # "none"

\* caller t calls check(str): self.check_impl(input, 0, 0)
Call(t) ==
    /\ pat.kind = "Ok"
    /\ ~Running(t)
    /\ \E str \in SharedInputs :
          callers' = [callers EXCEPT ![t] =
                          [input |-> str, stack |-> <<Activation(0, 0)>>, ret |-> NoReturn]]
    /\ UNCHANGED <<rx, pat, s, result, search>>

\* caller t runs the next step of its check
Step(t) ==
    /\ pat.kind = "Ok"
    /\ Running(t)
    /\ callers' = [callers EXCEPT ![t] = step_impl(pat.pattern, t)]
    /\ UNCHANGED <<rx, pat, s, result, search>>

\* Escapes: a backslash, the byte it escapes and up to MaxEscTailLen further
\* bytes, and the pattern of the compile test; inputs are strings of up to
\* MaxEscInputLen bytes that may hold the special bytes themselves.
EscExample == <<97, 115, 100, STAR, BACKSLASH, OPENSQBRACKET, 49, MINUS, 50, 46, 120, 120, 120>>
EscStrings ==
    {<<BACKSLASH, c>> \o w : c \in PatChars,
                             w \in UNION {[1..k -> PatChars] : k \in 0..MaxEscTailLen}}
        \cup {EscExample}
EscInputs == UNION {[1..k -> PatChars] : k \in 0..MaxEscInputLen}

NewEsc == Compile(EscStrings)
CheckEsc == CheckOn(EscInputs)
NextEsc == NewEsc \/ CheckEsc
SpecEsc == Init /\ [][NextEsc]_vars

\* The membership search, one loop iteration at a time, on every strictly
\* ascending array of bytes 1..MaxSearchByte - 1 and every byte 0..MaxSearchByte.
AscendingOf(S) ==
    [i \in 1..Cardinality(S) |-> CHOOSE x \in S : Cardinality({y \in S : y < x}) = i - 1]
SearchSets == {AscendingOf(S) : S \in SUBSET (1..(MaxSearchByte - 1))}
SearchBytes == 0..MaxSearchByte

\* char_in_impl(set, c) up to the loop: l = 0, r = set.len(), and the
\* return false for the empty array
SearchCall ==
    /\ search.pc \in {"none", "done"}
    /\ \E set \in SearchSets, c \in SearchBytes :
          search' = [set |-> set, c |-> c, l |-> 0, r |-> Len(set),
                     pc |-> IF Len(set) = 0 THEN "done" ELSE "loop",
                     ret |-> FALSE, reads |-> {}]
    /\ UNCHANGED <<rx, pat, s, result, callers>>

\* one test of while l + 1 < r: an iteration, or the return set[l] == c
SearchStep ==
    /\ search.pc = "loop"
    /\ LET set == search.set
           c == search.c
           l == search.l
           r == search.r
       IN  IF l + 1 < r
           THEN LET m == Mid(l, r)
                    x == IF m < Len(set) THEN At(set, m) ELSE 0
                    seen == [search EXCEPT !.reads = @ \cup {m}]
                IN  search' =
                        IF x = c THEN [seen EXCEPT !.pc = "done", !.ret = TRUE]
                        ELSE IF Below(x, c) THEN [seen EXCEPT !.l = m]
                        ELSE [seen EXCEPT !.r = m]
           ELSE search' = [search EXCEPT !.pc = "done",
                                         !.ret = (l < Len(set) /\ At(set, l) = c),
                                         !.reads = @ \cup {l}]
    /\ UNCHANGED <<rx, pat, s, result, callers>>

NextSearch == SearchCall \/ SearchStep
SpecSearch == Init /\ [][NextSearch]_vars

NextShared ==
    \/ NewShared
    \/ \E t \in Callers : Call(t)
    \/ \E t \in Callers : Step(t)

SpecShared == Init /\ [][NextShared]_vars

\* One caller alone; a check that has been called keeps running (its thread
\* is scheduled until it returns).
NextAlone == NewShared \/ Call(1) \/ Step(1)
SpecAlone == Init /\ [][NextAlone]_vars /\ WF_vars(Step(1))

(***************************************************************************)
(* What a match is, stated without the matcher: the input is split into    *)
(* consecutive spans, one per element of the pattern.                      *)
(***************************************************************************)
Checked == result.kind # "none"
Compiled == pat # NoPattern

InSet(v, c) == \E k \in 1..Len(v) : v[k] = c

\* the lengths of the spans element m admits at byte offset pos of str
SpanLens(m, str, pos) ==
    CASE m.tag = "Literal" ->
           IF pos + Len(m.v) <= Len(str) /\ SubSeq(str, pos + 1, pos + Len(m.v)) = m.v
           THEN {Len(m.v)} ELSE {}
      [] m.tag = "AnyChar" ->
           IF pos < Len(str) THEN {1} ELSE {}
      [] m.tag = "CharIn" ->
           IF pos < Len(str) /\ InSet(m.v, str[pos + 1]) THEN {1} ELSE {}
      [] m.tag = "CharNotIn" ->
           IF pos < Len(str) /\ ~InSet(m.v, str[pos + 1]) THEN {1} ELSE {}
      [] m.tag = "AnyString" ->
           0..(Len(str) - pos)

\* every way to split str from offset pos among the elements i..Len(p) of p:
\* a sequence of span lengths, one per element
RECURSIVE SplitsFrom(_, _, _, _)
SplitsFrom(p, str, i, pos) ==
    IF i > Len(p) THEN (IF pos = Len(str) THEN {<<>>} ELSE {})
    ELSE UNION {{<<n>> \o t : t \in SplitsFrom(p, str, i + 1, pos + n)} :
                n \in SpanLens(p[i], str, pos)}

Splits(p, str) == SplitsFrom(p, str, 1, 0)

RECURSIVE SpanStart(_, _)
SpanStart(split, i) == IF i <= 1 THEN 0 ELSE SpanStart(split, i - 1) + split[i - 1]

SpanOf(str, split, i) ==
    SubSeq(str, SpanStart(split, i) + 1, SpanStart(split, i) + split[i])

Capturing(m) == m.tag # "Literal"

\* the number of capturing elements among the first n elements of p
CapturesBefore(p, n) == Cardinality({j \in 1..n : Capturing(p[j])})

\* the patterns of the family C2 is about
EndsWithAnyString(p) == Len(p) > 0 /\ p[Len(p)].tag = "AnyString"

Front(p) == SubSeq(p, 1, Len(p) - 1)

(***************************************************************************)
(* C1..C3: which inputs match.                                             *)
(***************************************************************************)
\* C1: check returns Some exactly when the input can be split into
\* consecutive spans, one per element of the pattern in order, each span
\* admitted by its element (an AnyString span being any run of zero or more
\* bytes, the run reaching the end of the input included); otherwise None.
C1_SomeIffSplit ==
    Checked => /\ result.kind \in {"Some", "None"}
               /\ (result.kind = "Some") <=> (Splits(pat.pattern, s) # {})

\* C2: a pattern whose last element is AnyString matches every input whose
\* beginning matches the preceding elements, the final * capturing the whole
\* remaining suffix; the pattern * matches every input, the empty one too.
C2_TrailingStarMatches ==
    (Checked /\ EndsWithAnyString(pat.pattern)) =>
        \A k \in 0..Len(s) :
            Splits(Front(pat.pattern), SubSeq(s, 1, k)) # {} =>
                /\ result.kind = "Some"
                /\ \E j \in 0..Len(s) :
                      /\ Splits(Front(pat.pattern), SubSeq(s, 1, j)) # {}
                      /\ group(result, group_count(result) - 1) = SubSeq(s, j + 1, Len(s))

\* C3: matching is anchored on both ends: check returns Some only when
\* check_impl was called at the end of the pattern with the input position
\* equal to the input length, and then the whole input, no more and no less,
\* is split among the elements.
C3_Anchored ==
    (Checked /\ result.kind = "Some") =>
        /\ <<Len(s), Len(pat.pattern)>> \in result.calls
        /\ Splits(pat.pattern, s) # {}

\* C3 witness: a match found after the end of the pattern was first reached
\* with input left over, and rejected
C3_Witness ==
    /\ result.kind = "Some"
    /\ Len(pat.pattern) >= 2
    /\ \E c \in result.calls : c[2] = Len(pat.pattern) /\ c[1] < Len(s)

\* checked beside C1: the only inputs on which check departs from the split
\* semantics are those of patterns ending in AnyString, which never match
TrailingStarNeverMatches ==
    Checked => IF EndsWithAnyString(pat.pattern)
               THEN result.kind = "None"
               ELSE (result.kind = "Some") <=> (Splits(pat.pattern, s) # {})

(***************************************************************************)
(* C4..C6: the captures.                                                   *)
(***************************************************************************)
\* every AnyString span of the split is the shortest one after which the rest
\* of the pattern still matches the rest of the input, the spans to its left
\* being those of the split
IsShortest(p, str, split) ==
    \A i \in 1..Len(p) :
        p[i].tag = "AnyString" =>
            \A n \in 0..(split[i] - 1) :
                SplitsFrom(p, str, i + 1, SpanStart(split, i) + n) = {}

\* the capture of element i of p is the span the split gives it
CaptureIs(p, str, split, r, i) ==
    group(r, CapturesBefore(p, i - 1)) = from_utf8_lossy(SpanOf(str, split, i))

\* C4: leftmost-shortest wildcard: whenever check succeeds, the span each
\* AnyString element captured is the smallest length for which the rest of
\* the pattern matches the rest of the input, given the spans fixed to its
\* left; no shorter valid span is skipped.
C4_LeftmostShortest ==
    (Checked /\ result.kind = "Some") =>
        \E split \in Splits(pat.pattern, s) :
            /\ IsShortest(pat.pattern, s, split)
            /\ \A i \in 1..Len(pat.pattern) :
                  pat.pattern[i].tag = "AnyString" =>
                      CaptureIs(pat.pattern, s, split, result, i)

\* C4 witness: a match of a pattern with two wildcards where the input splits
\* in several ways and a wildcard captured a non-empty span
C4_Witness ==
    /\ result.kind = "Some"
    /\ Cardinality({i \in 1..Len(pat.pattern) : pat.pattern[i].tag = "AnyString"}) = 2
    /\ Cardinality(Splits(pat.pattern, s)) >= 2
    /\ \E j \in 0..(group_count(result) - 1) : Len(group(result, j)) > 0

\* C5: capture order: after a successful check, group(i), i in
\* 0..group_count()-1, is the capture of the i-th capturing element of the
\* pattern counted left to right.
C5_CaptureOrder ==
    (Checked /\ result.kind = "Some") =>
        \E split \in Splits(pat.pattern, s) :
            \A i \in 1..Len(pat.pattern) :
                Capturing(pat.pattern[i]) =>
                    /\ CapturesBefore(pat.pattern, i - 1) < group_count(result)
                    /\ CaptureIs(pat.pattern, s, split, result, i)

\* C5 witness: a match with a wildcard capture followed, after a literal, by a
\* different one-byte capture
C5_Witness ==
    /\ result.kind = "Some"
    /\ Len(pat.pattern) = 3
    /\ pat.pattern[1].tag = "AnyString"
    /\ pat.pattern[2].tag = "Literal"
    /\ pat.pattern[3].tag = "AnyChar"
    /\ group_count(result) = 2
    /\ Len(group(result, 0)) = 2
    /\ Len(group(result, 1)) = 1

\* C6: capture count: whenever check returns Some, group_count() is the
\* number of capturing elements (AnyChar, CharIn, CharNotIn, AnyString) of
\* the pattern; Literal elements contribute none.
C6_CaptureCount ==
    (Checked /\ result.kind = "Some") =>
        group_count(result) = CapturesBefore(pat.pattern, Len(pat.pattern))

\* C6 witness: a match of a pattern with a Literal and two capturing elements
C6_Witness ==
    /\ result.kind = "Some"
    /\ \E i \in 1..Len(pat.pattern) : pat.pattern[i].tag = "Literal"
    /\ group_count(result) = 2

(***************************************************************************)
(* C7: the literal law.                                                    *)
(***************************************************************************)
NoSpecial(re) == \A k \in 1..Len(re) : ~is_special(re[k])

\* C7: for a pattern string with none of the special bytes * ? [ \, check
\* succeeds if and only if the input equals the pattern byte for byte; the
\* empty pattern matches the empty input and no other.
C7_LiteralLaw ==
    (Compiled /\ NoSpecial(rx)) =>
        /\ pat.kind = "Ok"
        /\ Checked => ((result.kind = "Some") <=> (s = rx))

\* C7 witness: a pattern string of several ordinary bytes matched by the
\* input equal to it
C7_Witness ==
    /\ NoSpecial(rx)
    /\ Len(rx) >= 2
    /\ s = rx
    /\ result.kind = "Some"

(***************************************************************************)
(* C8, C9: malformed pattern strings.                                      *)
(***************************************************************************)
RECURSIVE TrailingBackslashes(_)
TrailingBackslashes(re) ==
    IF Len(re) = 0 \/ re[Len(re)] # BACKSLASH THEN 0
    ELSE 1 + TrailingBackslashes(SubSeq(re, 1, Len(re) - 1))

\* a pattern string with no bracket whose last byte is a backslash that no
\* backslash before it escapes
DanglingEscape(re) ==
    /\ \A k \in 1..Len(re) : re[k] # OPENSQBRACKET
    /\ TrailingBackslashes(re) % 2 = 1

\* C8: dangling escape: compiling a pattern whose last byte is an unescaped
\* backslash outside a bracket expression fails with a ParseError, and no
\* Pattern is produced.
C8_DanglingEscapeIsParseError ==
    (Compiled /\ DanglingEscape(rx)) => pat.kind = "Err"

\* a pattern string whose first special byte is a [ that no ] follows
UnterminatedBracket(re) ==
    \E k \in 1..Len(re) :
        /\ re[k] = OPENSQBRACKET
        /\ \A j \in 1..(k - 1) : re[j] # OPENSQBRACKET /\ re[j] # BACKSLASH
        /\ \A j \in (k + 1)..Len(re) : re[j] # CLOSESQBRACKET

\* C9: unterminated bracket: compiling a pattern in which a [ is not
\* followed by a closing ] before the end of the string returns a
\* ParseError, whatever the unfinished bracket holds (single items, ranges,
\* escaped items, escaped range endpoints, a leading ^).
C9_UnterminatedBracketIsParseError ==
    (Compiled /\ UnterminatedBracket(rx)) => pat.kind = "Err"

(***************************************************************************)
(* C10: matching raises no error.                                          *)
(***************************************************************************)
\* C10: for every compiled pattern and every input, each call of check_impl
\* has input position <= input length and element index <= number of
\* elements, no index or slice read is out of bounds (no panic), and check
\* returns Some(captures) or None.
C10_MatchNeverPanics ==
    Checked =>
        /\ result.kind \in {"Some", "None"}
        /\ \A c \in result.calls : c[1] <= Len(s) /\ c[2] <= Len(pat.pattern)

\* C10 witness: a check that backtracked and ran out of input before the
\* pattern was exhausted
C10_Witness ==
    /\ Checked
    /\ Len(pat.pattern) >= 3
    /\ Cardinality(result.calls) >= 4
    /\ \E c \in result.calls : c[1] = Len(s) /\ c[2] < Len(pat.pattern)

(***************************************************************************)
(* C12, C13: the one-byte wildcard, on patterns made of Literal and        *)
(* AnyChar elements only: every element then has one length, and element i *)
(* can only sit at one offset of the input.                                *)
(***************************************************************************)
OnlyLiteralAndAnyChar(p) ==
    \A i \in 1..Len(p) : p[i].tag \in {"Literal", "AnyChar"}

HasAnyChar(p) == \E i \in 1..Len(p) : p[i].tag = "AnyChar"

ElemLen(m) == IF m.tag = "Literal" THEN Len(m.v) ELSE 1

\* the offset of element i when every element before it takes its one length
RECURSIVE Offset(_, _)
Offset(p, i) == IF i <= 1 THEN 0 ELSE Offset(p, i - 1) + ElemLen(p[i - 1])

FixedLen(p) == Offset(p, Len(p) + 1)

LiteralsAgree(p, str) ==
    \A i \in 1..Len(p) :
        p[i].tag = "Literal" =>
            SubSeq(str, Offset(p, i) + 1, Offset(p, i) + Len(p[i].v)) = p[i].v

\* the input has one byte per AnyChar and the Literals at their offsets
OneBytePerAnyChar(p, str) == Len(str) = FixedLen(p) /\ LiteralsAgree(p, str)

\* C12: AnyChar (?) matches exactly one arbitrary byte and captures it: it
\* fails when no input byte remains (a?b matches a$b with capture $ and does
\* not match ab).
C12_AnyCharOneByteCaptured ==
    (Checked /\ OnlyLiteralAndAnyChar(pat.pattern) /\ HasAnyChar(pat.pattern)) =>
        /\ (result.kind = "Some") <=> OneBytePerAnyChar(pat.pattern, s)
        /\ result.kind = "Some" =>
              \A i \in 1..Len(pat.pattern) :
                  pat.pattern[i].tag = "AnyChar" =>
                      group(result, CapturesBefore(pat.pattern, i - 1))
                          = <<s[Offset(pat.pattern, i) + 1]>>

\* checked beside C12: ? does take exactly one byte, and what it captures is
\* the lossy decoding of that byte, which is the byte itself only below 128
AnyCharOneByteLossy ==
    (Checked /\ OnlyLiteralAndAnyChar(pat.pattern) /\ HasAnyChar(pat.pattern)) =>
        /\ (result.kind = "Some") <=> OneBytePerAnyChar(pat.pattern, s)
        /\ result.kind = "Some" =>
              \A i \in 1..Len(pat.pattern) :
                  pat.pattern[i].tag = "AnyChar" =>
                      group(result, CapturesBefore(pat.pattern, i - 1))
                          = from_utf8_lossy(<<s[Offset(pat.pattern, i) + 1]>>)

\* str from offset pos is the elements i.. of p, each AnyChar taking no byte
\* or one byte
RECURSIVE OptionalMatch(_, _, _, _)
OptionalMatch(p, str, i, pos) ==
    IF i > Len(p) THEN pos = Len(str)
    ELSE IF p[i].tag = "Literal"
         THEN /\ pos + Len(p[i].v) <= Len(str)
              /\ SubSeq(str, pos + 1, pos + Len(p[i].v)) = p[i].v
              /\ OptionalMatch(p, str, i + 1, pos + Len(p[i].v))
    ELSE \/ OptionalMatch(p, str, i + 1, pos)
         \/ pos < Len(str) /\ OptionalMatch(p, str, i + 1, pos + 1)

\* C13: as the module documentation states, ? matches one optional symbol: a
\* ? element may match zero bytes or one byte, so a?b matches both ab and a$b.
C13_AnyCharOptional ==
    (Checked /\ OnlyLiteralAndAnyChar(pat.pattern)) =>
        ((result.kind = "Some") <=> OptionalMatch(pat.pattern, s, 1, 0))

(***************************************************************************)
(* C14: the degenerate sets.                                               *)
(***************************************************************************)
IsEmptySet(m) == m.tag \in {"CharIn", "CharNotIn"} /\ m.v = <<>>

\* C14: [] compiles to an empty non-negated set that matches no byte, and
\* [^] compiles to an empty negated set that matches every single byte (and
\* captures it).
C14_DegenerateSets ==
    /\ (Compiled /\ rx = <<OPENSQBRACKET, CLOSESQBRACKET>>) =>
          pat = [kind |-> "Ok", pattern |-> <<CharIn(<<>>)>>]
    /\ (Compiled /\ rx = <<OPENSQBRACKET, INVERT, CLOSESQBRACKET>>) =>
          pat = [kind |-> "Ok", pattern |-> <<CharNotIn(<<>>)>>]
    /\ Checked =>
          \A i \in 1..Len(pat.pattern) :
              /\ pat.pattern[i] = CharIn(<<>>) => result.kind = "None"
              /\ (pat.pattern[i] = CharNotIn(<<>>) /\ result.kind = "Some") =>
                    \E split \in Splits(pat.pattern, s) :
                        /\ split[i] = 1
                        /\ group(result, CapturesBefore(pat.pattern, i - 1))
                              = SpanOf(s, split, i)
    /\ (Checked /\ pat.pattern = <<CharNotIn(<<>>)>>) =>
          ((result.kind = "Some") <=> (Len(s) = 1))

\* checked beside C14: the same, the capture being the lossy decoding of the
\* byte the empty negated set took
DegenerateSetsLossy ==
    /\ (Compiled /\ rx = <<OPENSQBRACKET, CLOSESQBRACKET>>) =>
          pat = [kind |-> "Ok", pattern |-> <<CharIn(<<>>)>>]
    /\ (Compiled /\ rx = <<OPENSQBRACKET, INVERT, CLOSESQBRACKET>>) =>
          pat = [kind |-> "Ok", pattern |-> <<CharNotIn(<<>>)>>]
    /\ Checked =>
          \A i \in 1..Len(pat.pattern) :
              /\ pat.pattern[i] = CharIn(<<>>) => result.kind = "None"
              /\ (pat.pattern[i] = CharNotIn(<<>>) /\ result.kind = "Some") =>
                    \E split \in Splits(pat.pattern, s) :
                        /\ split[i] = 1
                        /\ CaptureIs(pat.pattern, s, split, result, i)
    /\ (Checked /\ pat.pattern = <<CharNotIn(<<>>)>>) =>
          /\ (result.kind = "Some") <=> (Len(s) = 1)
          /\ result.kind = "Some" => group(result, 0) = s

(***************************************************************************)
(* C15: what a capture holds.                                              *)
(***************************************************************************)
\* C15: every capture returned by check is byte for byte the span of input
\* bytes its element consumed, for inputs of any byte content, also when a
\* one-byte element or an AnyString span ends inside a multi-byte character.
C15_CaptureIsSpan ==
    (Checked /\ result.kind = "Some") =>
        \E split \in Splits(pat.pattern, s) :
            \A i \in 1..Len(pat.pattern) :
                Capturing(pat.pattern[i]) =>
                    group(result, CapturesBefore(pat.pattern, i - 1))
                        = SpanOf(s, split, i)

\* checked beside C15: the captures are the spans whenever the input is made
\* of one-byte characters only
CaptureIsSpanOnAscii ==
    (Checked /\ result.kind = "Some" /\ \A k \in 1..Len(s) : s[k] < 128) =>
        \E split \in Splits(pat.pattern, s) :
            \A i \in 1..Len(pat.pattern) :
                Capturing(pat.pattern[i]) =>
                    group(result, CapturesBefore(pat.pattern, i - 1))
                        = SpanOf(s, split, i)

(***************************************************************************)
(* Bracket expressions: items, ranges and the compiled set                 *)
(***************************************************************************)
SetBytes(m) == {m.v[k] : k \in 1..Len(m.v)}

IsBracket == Compiled /\ pat.kind = "Ok" /\ Len(rx) > 0 /\ rx[1] = OPENSQBRACKET

\* the index of the first item of the bracket expression opening at index 0
FirstItem(re) == IF At(re, 1) = INVERT THEN 2 ELSE 1

\* the bytes covered by the items from index i up to the closing bracket
RECURSIVE ItemBytes(_, _)
ItemBytes(re, i) ==
    IF i < Len(re) /\ At(re, i) # CLOSESQBRACKET
    THEN LET it == parse_set_item(re, i)
         IN  IF it.kind # "Ok" THEN {}
             ELSE (it.begin..it.end) \cup ItemBytes(re, it.next)
    ELSE {}

\* C18: the set compiled from a bracket expression holds exactly the bytes
\* its items cover (every single byte, every byte of every inclusive range),
\* for every byte value a pattern string can hold, NUL included.
C18_SetIsItemBytes ==
    IsBracket => SetBytes(pat.pattern[1]) = ItemBytes(rx, FirstItem(rx))

\* Apart from the byte 0 the compiled set is the bytes of the items.
SetIsItemBytesButNul ==
    IsBracket => SetBytes(pat.pattern[1]) = ItemBytes(rx, FirstItem(rx)) \ {0}

\* a byte that is neither an escape, a closing bracket nor a leading caret
PlainBegin(c) == c \notin {BACKSLASH, CLOSESQBRACKET, INVERT}
PlainEnd(c) == c \notin {BACKSLASH, CLOSESQBRACKET}

IsPlainRange(re) ==
    /\ Len(re) = 5
    /\ re[1] = OPENSQBRACKET /\ re[3] = MINUS /\ re[5] = CLOSESQBRACKET
    /\ PlainBegin(re[2]) /\ PlainEnd(re[4])
    /\ re[2] <= re[4]

\* C11: the pattern [x-y] with x <= y and unescaped endpoints matches a
\* one-byte input exactly when the byte lies in x..y, endpoints included.
C11_InclusiveRange ==
    (Compiled /\ Checked /\ IsPlainRange(rx) /\ Len(s) = 1) =>
        (result.kind = "Some" <=> (rx[2] <= s[1] /\ s[1] <= rx[4]))

\* The inclusive range law holds for every range that does not begin at NUL.
InclusiveRangeAboveNul ==
    (Compiled /\ Checked /\ IsPlainRange(rx) /\ Len(s) = 1 /\ rx[2] # 0) =>
        (result.kind = "Some" <=> (rx[2] <= s[1] /\ s[1] <= rx[4]))

IsEscapedEndRange(re) ==
    /\ Len(re) = 6
    /\ re[1] = OPENSQBRACKET /\ re[3] = MINUS /\ re[4] = BACKSLASH
    /\ re[6] = CLOSESQBRACKET
    /\ PlainBegin(re[2])

\* C19: [x-\y] compiles, its upper endpoint is the byte after the backslash
\* and parsing resumes after that byte: the result is the one set x..y.
C19_EscapedRangeEnd ==
    (Compiled /\ IsEscapedEndRange(rx)) =>
        /\ pat.kind = "Ok"
        /\ Len(pat.pattern) = 1
        /\ pat.pattern[1].tag = "CharIn"
        /\ SetBytes(pat.pattern[1]) = rx[2]..rx[5]

\* [ body -] with a body of plain single bytes other than NUL
IsTrailingMinus(re) ==
    /\ Len(re) >= 3
    /\ re[1] = OPENSQBRACKET
    /\ re[Len(re) - 1] = MINUS /\ re[Len(re)] = CLOSESQBRACKET
    /\ PlainBegin(re[2])
    /\ \A k \in 2..(Len(re) - 2) :
           re[k] \notin {0, BACKSLASH, CLOSESQBRACKET, MINUS}

Outcome(r) == [kind |-> r.kind, groups |-> r.groups]

C17_ResultAsAlone ==
    \A t \in Callers :
        Done(t) => callers[t].ret = Outcome(check(pat.pattern, callers[t].input))

\* one check has returned captures while another, on another input, is
\* inside a nested activation
C17_Witness ==
    /\ Done(1) /\ callers[1].ret.kind = "Some" /\ callers[1].ret.groups # <<>>
    /\ Running(2) /\ Len(callers[2].stack) >= 2
    /\ callers[2].input # callers[1].input

(***************************************************************************)
(* C21: escapes outside brackets.                                          *)
(***************************************************************************)
IsEscape(re) == Len(re) >= 2 /\ re[1] = BACKSLASH

\* the pattern string two bytes after the backslash
AfterEscape(re) == SubSeq(re, 3, Len(re))

\* C21: a backslash and the byte c after it compile to the one-byte
\* Literal(c) and the rest of the pattern is compiled from two bytes later;
\* the pattern \c matches exactly the input c, without a capture, whatever
\* c means unescaped; in asd*\[1-2.xxx the [ is a literal.
C21_EscapeIsLiteral ==
    /\ (Compiled /\ IsEscape(rx)) =>
           LET rest == Pattern_new(AfterEscape(rx))
           IN  /\ pat.kind = rest.kind
               /\ pat.kind = "Ok" =>
                      pat.pattern = <<Literal(<<rx[2]>>)>> \o rest.pattern
    /\ (Compiled /\ IsEscape(rx) /\ Len(rx) = 2 /\ Checked) =>
           /\ result.kind = "Some" <=> s = <<rx[2]>>
           /\ result.kind # "Panic"
           /\ result.groups = <<>>
    /\ (Compiled /\ rx = EscExample) =>
           pat = [kind |-> "Ok",
                  pattern |-> <<Literal(<<97, 115, 100>>), AnyString,
                                Literal(<<OPENSQBRACKET>>),
                                Literal(<<49, MINUS, 50, 46, 120, 120, 120>>)>>]

\* an escaped star matched by the input "*"
C21_Witness ==
    /\ rx = <<BACKSLASH, STAR>>
    /\ pat.pattern = <<Literal(<<STAR>>)>>
    /\ s = <<STAR>>
    /\ result.kind = "Some" /\ result.groups = <<>>

(***************************************************************************)
(* C22: literal runs.                                                      *)
(***************************************************************************)
SpecialBytes == {STAR, QMARK, OPENSQBRACKET, BACKSLASH}

\* the index each element of the compiled pattern was parsed from
RECURSIVE ElementStarts(_, _)
ElementStarts(re, i) ==
    IF i < Len(re)
    THEN LET r == parse_matcher(re, i)
         IN  IF r.kind # "Ok" THEN <<>> ELSE <<i>> \o ElementStarts(re, r.next)
    ELSE <<>>

\* the end of the maximal run of ordinary bytes that starts at index i
RunEnd(re, i) ==
    CHOOSE j \in (i + 1)..Len(re) :
        /\ \A k \in i..(j - 1) : At(re, k) \notin SpecialBytes
        /\ j = Len(re) \/ At(re, j) \in SpecialBytes

IsLiteral(m) == m.tag = "Literal"

\* C22: only * ? [ \ are special.  An element parsed from any other byte
\* (], - and ^ included) is the one Literal holding the maximal run of
\* ordinary bytes from there; an element is no Literal unless it is such a
\* run or an escape; no Literal is empty; of two adjacent Literals at least
\* one was parsed from an escape.
C22_LiteralRuns ==
    (Compiled /\ pat.kind = "Ok") =>
        LET st == ElementStarts(rx, 0)
            p == pat.pattern
        IN  /\ Len(st) = Len(p)
            /\ \A k \in 1..Len(p) :
                  /\ At(rx, st[k]) \notin SpecialBytes =>
                         p[k] = Literal(Slice(rx, st[k], RunEnd(rx, st[k])))
                  /\ At(rx, st[k]) \in {STAR, QMARK, OPENSQBRACKET} => ~IsLiteral(p[k])
                  /\ IsLiteral(p[k]) => Len(p[k].v) >= 1
                  /\ (k < Len(p) /\ IsLiteral(p[k]) /\ IsLiteral(p[k + 1])) =>
                         \/ At(rx, st[k]) = BACKSLASH
                         \/ At(rx, st[k + 1]) = BACKSLASH

\* a run holding ], - and ^ between two wildcards
C22_Witness ==
    /\ rx = <<STAR, CLOSESQBRACKET, MINUS, INVERT, QMARK>>
    /\ pat.kind = "Ok"
    /\ pat.pattern = <<AnyString, Literal(<<CLOSESQBRACKET, MINUS, INVERT>>), AnyChar>>

(***************************************************************************)
(* C23: the byte array of a set.                                           *)
(***************************************************************************)
IsSet(m) == m.tag \in {"CharIn", "CharNotIn"}

StrictlyAscending(v) == \A i, j \in 1..Len(v) : i < j => v[i] < v[j]

\* C23: in every compiled Pattern the byte array of every CharIn and
\* CharNotIn element is strictly ascending, whatever the order and the
\* overlap of the items in the bracket.
C23_SetStrictlyAscending ==
    (Compiled /\ pat.kind = "Ok") =>
        \A k \in 1..Len(pat.pattern) :
            IsSet(pat.pattern[k]) => StrictlyAscending(pat.pattern[k].v)

\* a byte written before a range that covers it
C23_Witness ==
    /\ rx = <<OPENSQBRACKET, 98, 97, MINUS, 98, CLOSESQBRACKET>>
    /\ pat.kind = "Ok"
    /\ pat.pattern = <<CharIn(<<97, 98>>)>>

(***************************************************************************)
(* C24: the membership search.                                             *)
(***************************************************************************)
Searching == search.pc = "loop"
Searched == search.pc = "done"

\* C24: on a strictly ascending array char_in_impl reads only indices
\* inside the array, every iteration of its loop narrows r - l (so it
\* terminates), and it returns true exactly for the elements of the array,
\* false on the empty array; the value is the one the matcher uses.
C24_MembershipSearch ==
    /\ [](/\ search.reads \subseteq 0..(Len(search.set) - 1)
          /\ Searching => (0 <= search.l /\ search.l < search.r
                              /\ search.r <= Len(search.set))
          /\ Searched =>
                 /\ search.ret <=> InSet(search.set, search.c)
                 /\ search.ret <=> char_in_impl(search.set, search.c)
                 /\ search.set = <<>> => ~search.ret)
    /\ [][(Searching /\ search'.pc = "loop") =>
              (search'.r - search'.l < search.r - search.l)]_vars

\* an element of the longest array found after the range was narrowed
C24_Witness ==
    /\ Searched /\ search.ret
    /\ Len(search.set) = MaxSearchByte - 1
    /\ search.l > 0 /\ Cardinality(search.reads) >= 2

(***************************************************************************)
(* C25: termination of matching.                                           *)
(***************************************************************************)
\* C25: every activation of check_impl works on the element after the one
\* of its caller, so the k-th nested activation is at element k - 1 and the
\* depth is at most the number of elements plus one; the p of an AnyString
\* loop stays between pos and the last byte of the input, at most
\* (input length - pos) iterations; every check that was called returns.
C25_CheckTerminates ==
    /\ [](\A t \in Callers :
             LET st == callers[t].stack
             IN  /\ Len(st) <= Len(pat.pattern) + 1
                 /\ \A k \in 1..Len(st) :
                        /\ st[k].rule_idx = k - 1
                        /\ st[k].pos <= Len(callers[t].input)
                        /\ st[k].at = "loop" =>
                               (st[k].pos <= st[k].q /\ st[k].q < Len(callers[t].input)))
    /\ (Running(1) ~> Done(1))

\* the deepest recursion: an activation past the last of three elements,
\* below an AnyString loop in its second iteration
C25_Witness ==
    /\ Len(pat.pattern) = 3
    /\ Len(callers[1].stack) = 4
    /\ \E k \in 1..3 : callers[1].stack[k].at = "loop"
                          /\ callers[1].stack[k].q > callers[1].stack[k].pos

(***************************************************************************)
(* C26: compilation is total and makes progress.                           *)
(***************************************************************************)
\* every parse step that succeeds returns an index past its start and not
\* past the end of the pattern string
ParseStepsAdvance(re) ==
    /\ \A i \in 0..(Len(re) - 1) :
           LET r == parse_matcher(re, i)
           IN  r.kind = "Ok" => (i < r.next /\ r.next <= Len(re))
    /\ \A i \in 1..(Len(re) - 1) :
           LET it == parse_set_item(re, i)
           IN  it.kind = "Ok" => (i < it.next /\ it.next <= Len(re))

\* C26: for every pattern string Pattern::new returns Ok(Pattern) or
\* Err(ParseError) (no read outside the pattern string, hence no panic),
\* and every parse step advances inside the string.
C26_CompileTotal ==
    Compiled => (pat.kind \in {"Ok", "Err"} /\ ParseStepsAdvance(rx))

\* Every parse step that succeeds advances inside the pattern string.
CompileAdvances == Compiled => ParseStepsAdvance(rx)

\* Pattern::new reads outside the string only after a backslash: one that
\* is the last byte outside a bracket, or one that escapes the end of a range.
PanicOnlyAfterBackslash ==
    (Compiled /\ pat.kind = "Panic") =>
        \E k \in 1..Len(rx) : rx[k] = BACKSLASH /\ k >= Len(rx) - 1

(***************************************************************************)
(* C27: reconstruction of the input.                                       *)
(***************************************************************************)
SingleByteChars(str) == \A k \in 1..Len(str) : str[k] < 128

\* the bytes of the Literals and the captures group(0), group(1), ... of the
\* capturing elements, concatenated in pattern order from element i on
RECURSIVE Rebuild(_, _, _)
Rebuild(p, r, i) ==
    IF i > Len(p) THEN <<>>
    ELSE (IF IsLiteral(p[i]) THEN p[i].v ELSE group(r, CapturesBefore(p, i - 1)))
             \o Rebuild(p, r, i + 1)

\* C27: after a successful check of an input of single-byte characters the
\* Literals and the captures, in pattern order, concatenate to the input;
\* the capture of an AnyChar or of a set is one byte, and the byte of a set
\* capture is in the set (CharIn) or outside it (CharNotIn).
C27_Reconstruction ==
    (Checked /\ result.kind = "Some" /\ SingleByteChars(s)) =>
        LET p == pat.pattern
        IN  /\ group_count(result) = CapturesBefore(p, Len(p))
            /\ Rebuild(p, result, 1) = s
            /\ \A i \in 1..Len(p) :
                   LET g == group(result, CapturesBefore(p, i - 1))
                   IN  /\ p[i].tag \in {"AnyChar", "CharIn", "CharNotIn"} => Len(g) = 1
                       /\ p[i].tag = "CharIn" => InSet(p[i].v, g[1])
                       /\ p[i].tag = "CharNotIn" => ~InSet(p[i].v, g[1])

\* a wildcard that captured a byte, then a set that captured another
C27_Witness ==
    /\ Checked /\ result.kind = "Some" /\ SingleByteChars(s)
    /\ Len(pat.pattern) = 2
    /\ pat.pattern[1].tag = "AnyString"
    /\ IsSet(pat.pattern[2])
    /\ Len(s) = 2 /\ s[1] # s[2]
    /\ group(result, 0) = <<s[1]>> /\ group(result, 1) = <<s[2]>>

====
